---- MODULE Spec2Model ----
(***************************************************************************)
(* Model of the rubric-sheet pipeline of src/backend/main.py:               *)
(*   - the relative-density scorer detect_score_with_grid,                  *)
(*   - the anchor locator find_text_anchors,                                *)
(*   - the page orchestrator process_rubric_page,                           *)
(*   - the batch endpoint process_rubrics_endpoint.                         *)
(*                                                                         *)
(* Representation.                                                         *)
(*   Densities (ink fractions) are integers in thousandths: 0.015 is 15.   *)
(*   Every comparison of the source between float products is modelled by  *)
(*   the equivalent comparison between integers (exact arithmetic).        *)
(*   The threshold multiplier is an integer in sixteenths: 1.0 is 16.      *)
(*   An image is described by what the code measures on it: its size, the  *)
(*   ink fraction found in the i-th zone rectangle of each row, and the    *)
(*   ink fraction of its margins.                                          *)
(*   None is the integer NoScore (-1).                                     *)
(***************************************************************************)
EXTENDS Integers, Sequences, FiniteSets, TLC

VARIABLES
    sc_in,      \* scorer: the row handed to detect_score_with_grid
    sc_out,     \* scorer: what the call returned (ScorerIdle before)
    an_in,      \* anchor locator: the recognizer's tokens, in its order
    an_out,     \* anchor locator: what find_text_anchors returned
    config,     \* endpoint: whether the poppler and tesseract paths resolve
    files,      \* endpoint: the uploaded documents, in order
    pc,         \* endpoint: where process_rubrics_endpoint stands
    file_idx,   \* endpoint: position of the for loop over files (1-based)
    images,     \* endpoint: the pages convert_from_path returned
    page_idx,   \* endpoint: page_num of the loop over images
    csv_data,   \* endpoint: the rows collected so far
    errors,     \* endpoint: the documents whose exception was printed
    pg          \* the running call of process_rubric_page

scorer_vars == <<sc_in, sc_out>>

anchor_vars == <<an_in, an_out>>

batch_vars == <<config, files, pc, file_idx, images, page_idx, csv_data, errors, pg>>

vars == <<sc_in, sc_out, an_in, an_out, config, files, pc, file_idx, images,
          page_idx, csv_data, errors, pg>>

----------------------------------------------------------------------------
(* Bounds of the model *)

ImgWidth == 1000
ImgHeight == 1400
MaxLines == 7
MaxTokens == 2
MaxDocs == 2
MaxPages == 2

(* Program constants *)

NoScore == -1
MinInk == 15
InitialMultiplier == 16
RetryFloor == 8
GridInset == 5
RowPadTop == 10
RowPadBottom == 20
FallbackTrim == 4
FallbackShift == 2
NumQuestions == 11
MinConfidence == 60
SmallSkew == 15

----------------------------------------------------------------------------
(* Arithmetic helpers *)

Min(a, b) == IF a <= b THEN a ELSE b

Max(a, b) == IF a >= b THEN a ELSE b

\* Python's int() of the quotient n / d, d > 0: truncation toward zero.
Trunc(n, d) == IF n >= 0 THEN n \div d ELSE -((-n) \div d)

RECURSIVE SeqSum(_)
SeqSum(s) == IF s = <<>> THEN 0 ELSE Head(s) + SeqSum(Tail(s))

RECURSIVE SeqMax(_)
SeqMax(s) == IF Len(s) = 1 THEN s[1] ELSE Max(Head(s), SeqMax(Tail(s)))

RECURSIVE InsertSorted(_, _)
InsertSorted(x, s) ==
    IF s = <<>> THEN <<x>>
    ELSE IF x <= Head(s) THEN <<x>> \o s
    ELSE <<Head(s)>> \o InsertSorted(x, Tail(s))

RECURSIVE sorted(_)
sorted(s) == IF s = <<>> THEN <<>> ELSE InsertSorted(Head(s), sorted(Tail(s)))

----------------------------------------------------------------------------
(* detect_vertical_grid_lines, its last step: of the clustered line        *)
(* positions keep those in the right 55% of the page, sorted.              *)

\* line > img_width * 0.45
right_of_text_column(line, img_width) == 100 * line > 45 * img_width

detect_vertical_grid_lines(unique_lines, img_width) ==
    sorted(SelectSeq(unique_lines, LAMBDA line : right_of_text_column(line, img_width)))

----------------------------------------------------------------------------
(* detect_score_with_grid *)

scores == <<0, 2, 3, 4, 5>>

calculate_margin_baseline_density(binary_image) == binary_image.margin

relevant_lines(vertical_lines, img_width) ==
    SelectSeq(vertical_lines, LAMBDA line : right_of_text_column(line, img_width))

\* The zones cut out by consecutive pairs of grid lines.
line_pair_rois(rel, y, h) ==
    [i \in 1..Min(5, Len(rel) - 1) |->
        <<rel[i] + GridInset, y - RowPadTop,
          rel[i + 1] - rel[i] - 2 * GridInset, h + RowPadBottom>>]

\* The zones of the equal subdivision of [left_limit, 0.95 * width].
\* i is the zone's position 1..5 (the source counts 0..4).
\*   roi_x = int(left + (i-1) * tw/5 + 0.25 * tw/5) + 2
\*   roi_w = int(tw/5 - 2 * 0.25 * tw/5) - 4
fallback_rois(rel, y, h, img_width) ==
    LET left_limit == IF rel # <<>> THEN rel[1] ELSE Trunc(45 * img_width, 100)
        right_limit == Trunc(95 * img_width, 100)
        total_width == right_limit - left_limit
    IN  [i \in 1..5 |->
            <<Trunc(20 * left_limit + (4 * (i - 1) + 1) * total_width, 20) + FallbackShift,
              y - RowPadTop,
              Trunc(total_width, 10) - FallbackTrim,
              h + RowPadBottom>>]

zone_rois(rel, anchor_box, img_width) ==
    IF Len(rel) >= 5
    THEN line_pair_rois(rel, anchor_box[2], anchor_box[4])
    ELSE fallback_rois(rel, anchor_box[2], anchor_box[4], img_width)

\* The rectangle after clamping: the right-hand side of the tuple
\* assignment reads the unclamped rx and ry.
clamped_roi(roi, img_width, img_height) ==
    <<Max(0, roi[1]), Max(0, roi[2]),
      Min(roi[3], img_width - roi[1]), Min(roi[4], img_height - roi[2])>>

\* Ink fraction of zone i: 0 for a degenerate rectangle, else what the
\* image holds in the i-th rectangle of the row (the row is named by its
\* anchor's top, roi_y + 10).
zone_density(binary_image, rois, i) ==
    LET c == clamped_roi(rois[i], binary_image.width, binary_image.height)
    IN  IF c[3] <= 0 \/ c[4] <= 0
        THEN 0
        ELSE binary_image.ink[rois[i][2] + RowPadTop][i]

zone_densities(binary_image, rois) ==
    [i \in 1..Len(rois) |-> zone_density(binary_image, rois, i)]

max_val(dens) == IF dens # <<>> THEN SeqMax(dens) ELSE 0

\* np.argmax: the first index holding the maximum (1-based here, 0 for none).
winner_idx(dens) ==
    IF dens # <<>>
    THEN CHOOSE i \in 1..Len(dens) :
            /\ dens[i] = SeqMax(dens)
            /\ \A j \in 1..(i - 1) : dens[j] # SeqMax(dens)
    ELSE 0

\* Sum and number of the densities of the zones other than the winner;
\* avg_empty_density is their quotient (0 when there is none).
empty_sum(dens) == SeqSum(dens) - (IF dens # <<>> THEN dens[winner_idx(dens)] ELSE 0)

empty_count(dens) == IF dens # <<>> THEN Len(dens) - 1 ELSE 0

\* Mutant: the margin baseline halved instead of doubled.
above_noise_threshold_halved(dens, margin_baseline) ==
    /\ 2 * max_val(dens) > margin_baseline
    /\ 2 * empty_count(dens) * max_val(dens) > 3 * empty_sum(dens)

\* max_val > max(margin_baseline * 2.0, avg_empty_density * 1.5)
above_noise_threshold(dens, margin_baseline) ==
    /\ max_val(dens) > 2 * margin_baseline
    /\ 2 * empty_count(dens) * max_val(dens) > 3 * empty_sum(dens)

\* Mutant: the ink floor at 0.0015 instead of 0.015.
above_min_ink_tenth(dens) == 10 * max_val(dens) > MinInk

\* max_val > 0.015
above_min_ink(dens) == max_val(dens) > MinInk

\* Mutant: the winner must be 3x, not 2x, the mean of the others.
dominates_others_3x(dens) ==
    \/ empty_sum(dens) = 0
    \/ empty_count(dens) * max_val(dens) > 3 * empty_sum(dens)

\* avg_empty_density == 0 or max_val > avg_empty_density * 2.0
dominates_others(dens) ==
    \/ empty_sum(dens) = 0
    \/ empty_count(dens) * max_val(dens) > 2 * empty_sum(dens)

is_confident(dens, margin_baseline) ==
    /\ above_noise_threshold(dens, margin_baseline)
    /\ above_min_ink(dens)
    /\ dominates_others(dens)

\* Mutant: the recursion limited at 0.0625 instead of 0.5.
retry_allowed_deeper(multiplier) == multiplier > 1

\* initial_threshold_multiplier > 0.5
retry_allowed(multiplier) == multiplier > RetryFloor

\* The call and its retries. score is the value returned; calls lists the
\* multiplier of every invocation, the top-level one first; zones is the
\* number of zones the call built.
RECURSIVE detect_score_with_grid(_, _, _, _)
detect_score_with_grid(binary_image, anchor_box, vertical_lines, multiplier) ==
    LET margin_baseline == calculate_margin_baseline_density(binary_image)
        rel == relevant_lines(vertical_lines, binary_image.width)
        rois == zone_rois(rel, anchor_box, binary_image.width)
        dens == zone_densities(binary_image, rois)
    IN  IF is_confident(dens, margin_baseline)
        THEN [score |-> scores[winner_idx(dens)], calls |-> <<multiplier>>,
              zones |-> Len(rois), dens |-> dens]
        ELSE IF retry_allowed(multiplier)
        THEN LET r == detect_score_with_grid(binary_image, anchor_box,
                                             vertical_lines, multiplier \div 2)
             IN  [score |-> r.score, calls |-> <<multiplier>> \o r.calls,
                  zones |-> Len(rois), dens |-> dens]
        ELSE [score |-> NoScore, calls |-> <<multiplier>>,
              zones |-> Len(rois), dens |-> dens]

----------------------------------------------------------------------------
(* find_text_anchors. A token's text is a sequence of characters. *)

RECURSIVE join(_)
join(chars) == IF chars = <<>> THEN "" ELSE Head(chars) \o join(Tail(chars))

is_space(c) == c \in {" ", "\t", "\n"}

is_digit(c) == c \in {"0", "1", "2", "3", "4", "5", "6", "7", "8", "9"}

RECURSIVE lstrip(_)
lstrip(chars) ==
    IF chars # <<>> /\ is_space(Head(chars)) THEN lstrip(Tail(chars)) ELSE chars

RECURSIVE rstrip(_)
rstrip(chars) ==
    IF chars # <<>> /\ is_space(chars[Len(chars)])
    THEN rstrip(SubSeq(chars, 1, Len(chars) - 1))
    ELSE chars

strip(chars) == rstrip(lstrip(chars))

\* re.match(r"^\s*(\d{1,2})[.\s]", text).group(1), "" when there is no
\* match: two digits are tried first, then one.
regex_match(chars) ==
    LET t == lstrip(chars)
        delim(c) == c = "." \/ is_space(c)
    IN  IF Len(t) >= 3 /\ is_digit(t[1]) /\ is_digit(t[2]) /\ delim(t[3])
        THEN t[1] \o t[2]
        ELSE IF Len(t) >= 2 /\ is_digit(t[1]) /\ delim(t[2])
        THEN t[1]
        ELSE ""

\* The keys of RUBRIC_MAP: "1" .. "11".
RUBRIC_KEYS == {ToString(n) : n \in 1..NumQuestions}

\* Mutant: the margin reaches to the middle of the page.
in_left_margin_half(x, img_width) == 2 * x < img_width

\* x < img_width * 0.15
in_left_margin(x, img_width) == 100 * x < 15 * img_width

token_box(token) == <<token.left, token.top, token.width, token.height>>

\* Mutant: a question id already present keeps its box.
store_anchor_first(anchor_boxes, q_num, box) == anchor_boxes @@ (q_num :> box)

\* anchor_boxes[q_num] = (x, y, w, h)
store_anchor(anchor_boxes, q_num, box) == (q_num :> box) @@ anchor_boxes

\* One iteration of the loop over the tokens. found.boxes is the dict,
\* found.order its keys in insertion order.
anchor_step(found, token, img_width) ==
    LET q_num_str == regex_match(strip(token.text))
    IN  IF /\ q_num_str # ""
           /\ q_num_str \in RUBRIC_KEYS
           /\ token.conf > MinConfidence
           /\ in_left_margin(token.left, img_width)
        THEN [boxes |-> store_anchor(found.boxes, q_num_str, token_box(token)),
              order |-> IF q_num_str \in DOMAIN found.boxes
                        THEN found.order
                        ELSE Append(found.order, q_num_str)]
        ELSE found

RECURSIVE anchor_scan(_, _, _)
anchor_scan(found, tokens, img_width) ==
    IF tokens = <<>> THEN found
    ELSE anchor_scan(anchor_step(found, Head(tokens), img_width), Tail(tokens), img_width)

NoAnchors == [boxes |-> [q \in {} |-> <<>>], order |-> <<>>]

\* data is what image_to_data returned: failed when it raised (the
\* exception leaves find_text_anchors), else the tokens in its order.
find_text_anchors(data, img_width) ==
    IF data.failed
    THEN [raised |-> TRUE, boxes |-> NoAnchors.boxes, order |-> <<>>]
    ELSE LET found == anchor_scan(NoAnchors, data.tokens, img_width)
         IN  [raised |-> FALSE, boxes |-> found.boxes, order |-> found.order]

----------------------------------------------------------------------------
(* deskew. osd is what image_to_osd returned: failed when it raised.       *)
(* The result is the rotation applied to the page (0: image unchanged).    *)

abs(n) == IF n < 0 THEN -n ELSE n

deskew(osd) ==
    IF osd.failed THEN 0
    ELSE IF osd.rotate # 0 /\ abs(osd.rotate) < SmallSkew THEN -osd.rotate
    ELSE 0

----------------------------------------------------------------------------
(* has_critical_anchor. The recognized text is a sequence of words. *)

Vocabulary ==
    {"Motivation", "BUDGET", "Schedules", "Comments", "Thanks",
     "Advisor:", "ADVISOR", "Capstone", "Group:"}

\* str.lower on the words of the vocabulary.
lower(word) ==
    CASE word = "Motivation" -> "motivation"
      [] word = "BUDGET" -> "budget"
      [] word = "Schedules" -> "schedules"
      [] word = "Comments" -> "comments"
      [] word = "Thanks" -> "thanks"
      [] word = "Advisor:" -> "advisor:"
      [] word = "ADVISOR" -> "advisor"
      [] word = "Capstone" -> "capstone"
      [] word = "Group:" -> "group:"
      [] word = "Advisor" -> "advisor"
      [] word = "Group" -> "group"

\* needle in word, for lowered words of the vocabulary.
contains(word, needle) ==
    <<word, needle>> \in
        { <<"motivation", "motivation">>, <<"budget", "budget">>,
          <<"schedules", "schedule">>, <<"advisor:", "advisor">>,
          <<"advisor", "advisor">>, <<"group:", "group">> }

keywords == {"motivation", "evaluation", "constraints", "budget", "schedule"}

\* Mutant: a failed recognizer call validates the page.
has_critical_anchor_lenient(validation) ==
    IF validation.failed THEN TRUE
    ELSE \E k \in keywords : \E i \in 1..Len(validation.text) :
            contains(lower(validation.text[i]), k)

\* validation is what image_to_string returned on the down-scaled page.
has_critical_anchor(validation) ==
    IF validation.failed THEN FALSE
    ELSE \E k \in keywords : \E i \in 1..Len(validation.text) :
            contains(lower(validation.text[i]), k)

----------------------------------------------------------------------------
(* extract_handwritten_field. data is what image_to_data returned (failed  *)
(* when it raised: the call is outside any try), crop_ocr what              *)
(* image_to_string returned on the crop (failed: absorbed by the except).   *)
(* The geometry of the crop is not modelled, only that it is saved.        *)

Letters ==
    {"a", "b", "c", "d", "e", "f", "g", "h", "i", "j", "k", "l", "m", "n", "o",
     "p", "q", "r", "s", "t", "u", "v", "w", "x", "y", "z",
     "A", "B", "C", "D", "E", "F", "G", "H", "I", "J", "K", "L", "M", "N", "O",
     "P", "Q", "R", "S", "T", "U", "V", "W", "X", "Y", "Z"}

is_kept_char(c) ==
    \/ is_digit(c)
    \/ is_space(c)
    \/ c \in {".", ","}
    \/ c \in Letters

\* re.sub(r"[^a-zA-Z0-9\s\.,]", "", text.strip())
clean_garbage(chars) == join(SelectSeq(strip(chars), is_kept_char))

label_token(data, label) ==
    LET hits == {i \in 1..Len(data.tokens) :
                    /\ contains(lower(data.tokens[i].text), lower(label))
                    /\ data.tokens[i].conf > MinConfidence}
    IN  IF hits = {} THEN 0 ELSE CHOOSE i \in hits : \A j \in hits : i <= j

extract_handwritten_field(data, label, crop_ocr, filename_prefix) ==
    IF data.failed
    THEN [raised |-> TRUE, text |-> "", path |-> ""]
    ELSE IF label_token(data, label) = 0
    THEN [raised |-> FALSE, text |-> "", path |-> ""]
    ELSE [raised |-> FALSE,
          text |-> IF crop_ocr.failed THEN "" ELSE clean_garbage(crop_ocr.text),
          path |-> filename_prefix \o "_" \o lower(label) \o "_crop.jpg"]

----------------------------------------------------------------------------
(* process_rubric_page, the parts that build the result record *)

\* RUBRIC_MAP[q_num].get(score, ""): a description for each of the five
\* scores, "" for None.
rubric_text(q_num, score) ==
    IF score \in {0, 2, 3, 4, 5}
    THEN "Q" \o q_num \o " description " \o ToString(score)
    ELSE ""

comments_result(filename_prefix) ==
    ("Comments_Image_Path" :> (filename_prefix \o "_full_comments.jpg"))

field_results(advisor, group) ==
    [Advisor |-> advisor.text, Advisor_Image_Path |-> advisor.path,
     Group_Name |-> group.text, Group_Name_Image_Path |-> group.path]

score_key(q_num) == "Q" \o q_num \o "_Score"

text_key(q_num) == "Q" \o q_num \o "_Text"

with_score(results, q_num, score) ==
    (score_key(q_num) :> score) @@ (text_key(q_num) :> rubric_text(q_num, score))
        @@ results

----------------------------------------------------------------------------
(* The rows the scorer is run on *)

Densities == {0, 10, 16, 200}

Baselines == {0, 5, 8, 20}

\* Clustered line positions a page can show: the border of the question
\* text (left of 0.45 * width), then grid lines at a fixed pitch.
TextBorderX == 400
GridLeft == 500
GridPitch == 80

CandidateLines == <<TextBorderX>> \o [k \in 1..MaxLines |-> GridLeft + (k - 1) * GridPitch]

LineLists ==
    {SubSeq(CandidateLines, i, j) : i \in 1..(MaxLines + 2), j \in 0..(MaxLines + 1)}

AnchorBoxes == {<<40, 4, 30, 30>>, <<40, 700, 30, 30>>}

ScorerRows ==
    [unique_lines : LineLists, anchor_box : AnchorBoxes,
     ink : [1..5 -> Densities], margin : Baselines]

binary_image_of(row) ==
    [width |-> ImgWidth, height |-> ImgHeight,
     ink |-> (row.anchor_box[2] :> row.ink), margin |-> row.margin]

\* The tokens the anchor locator is run on.
AnchorTexts ==
    { <<"1", ".">>, <<"1", "1", ".">>, <<"1", "2", ".">>, <<"1", "1">>,
      <<" ", "1", " ", "a">> }

Confidences == {60, 80}

TokenLefts == {50, 150, 300, 500}

RowTops == {120, 480}

\* Recognizer tokens.  The second row is only used for the tokens that can
\* compete for an anchor: a question number inside or on the margin boundary.
Tokens ==
    { t \in [text : AnchorTexts, conf : Confidences, left : TokenLefts,
             top : RowTops, width : {30}, height : {30}] :
        t.top = 480 =>
            /\ t.text \in { <<"1", ".">>, <<"1", "1", ".">> }
            /\ t.left \in {50, 150} }

RECURSIVE SeqsUpTo(_, _)
SeqsUpTo(S, n) ==
    IF n = 0 THEN {<<>>}
    ELSE LET shorter == SeqsUpTo(S, n - 1)
         IN  shorter \cup {Append(s, x) : s \in shorter, x \in S}

----------------------------------------------------------------------------
(* The pages and documents the pipeline is run on *)

Tok(text, conf, left, top) ==
    [text |-> text, conf |-> conf, left |-> left, top |-> top,
     width |-> 30, height |-> 30]

Ok(tokens) == [failed |-> FALSE, tokens |-> tokens]

RecognizerFailed == [failed |-> TRUE, tokens |-> <<>>]

OsdResults ==
    {[failed |-> TRUE, rotate |-> 0], [failed |-> FALSE, rotate |-> 0],
     [failed |-> FALSE, rotate |-> 6]}

ValidationResults ==
    {[failed |-> TRUE, text |-> <<>>]} \cup
    {[failed |-> FALSE, text |-> t] :
        t \in {<<>>, <<"Comments">>, <<"Comments", "Thanks">>, <<"Motivation">>,
               <<"Comments", "BUDGET">>, <<"Schedules">>}}

FieldTokenLists ==
    { <<>>,
      <<[text |-> "Advisor:", conf |-> 90]>>,
      <<[text |-> "Advisor:", conf |-> 60], [text |-> "Group:", conf |-> 90]>>,
      <<[text |-> "Capstone", conf |-> 90], [text |-> "ADVISOR", conf |-> 90],
        [text |-> "Group:", conf |-> 90]>> }

\* The two image_to_data calls of the field extractor: at most one of them
\* fails, and both read the same tokens.
FieldCalls ==
    {[advisor_data |-> [failed |-> f[1], tokens |-> t],
      group_data |-> [failed |-> f[2], tokens |-> t]] :
        t \in FieldTokenLists,
        f \in {<<FALSE, FALSE>>, <<TRUE, FALSE>>, <<FALSE, TRUE>>}}

CropResults ==
    {[failed |-> TRUE, text |-> <<>>],
     [failed |-> FALSE, text |-> <<" ", "D", "r", "_", "K", ".">>]}

AnchorResults ==
    { RecognizerFailed,
      Ok(<<>>),
      Ok(<<Tok(<<"1", ".">>, 80, 50, 120)>>),
      Ok(<<Tok(<<"1", ".">>, 80, 50, 120), Tok(<<"1", "1", ".">>, 80, 50, 480)>>),
      Ok(<<Tok(<<"1", ".">>, 80, 50, 120), Tok(<<"1", ".">>, 80, 50, 480)>>),
      Ok(<<Tok(<<"1", "1", ".">>, 80, 300, 480)>>),
      Ok(<<Tok(<<"1", ".">>, 60, 50, 120), Tok(<<"1", "2", ".">>, 80, 50, 480)>>) }

RowInks == {<<10, 10, 10, 200, 10>>, <<10, 10, 10, 10, 10>>}

PageLines ==
    {<<>>, SubSeq(CandidateLines, 1, 6), SubSeq(CandidateLines, 1, 7)}

PageInputs ==
    [osd : OsdResults, validation : ValidationResults, fields : FieldCalls,
     crop_ocr : CropResults, anchor_data : AnchorResults,
     unique_lines : PageLines, ink : [RowTops -> RowInks], margin : {5}]

\* Three pages for the documents of a batch: a rubric page, a page of
\* comments, and a rubric page on which anchor location fails.
RubricPage ==
    [osd |-> [failed |-> FALSE, rotate |-> 0],
     validation |-> [failed |-> FALSE, text |-> <<"Motivation">>],
     fields |-> [advisor_data |-> Ok(<<[text |-> "Advisor:", conf |-> 90]>>),
                 group_data |-> Ok(<<[text |-> "Advisor:", conf |-> 90]>>)],
     crop_ocr |-> [failed |-> TRUE, text |-> <<>>],
     anchor_data |-> Ok(<<Tok(<<"1", ".">>, 80, 50, 120)>>),
     unique_lines |-> SubSeq(CandidateLines, 1, 7),
     ink |-> [t \in RowTops |-> <<10, 10, 10, 200, 10>>],
     margin |-> 5]

CommentsPage == [RubricPage EXCEPT !.validation = [failed |-> FALSE, text |-> <<"Comments">>]]

BrokenPage == [RubricPage EXCEPT !.anchor_data = RecognizerFailed]

PageSamples == {RubricPage, CommentsPage, BrokenPage}

\* A document: whether convert_from_path raises on it, else its pages.
Doc(raster_failed, pages) == [raster_failed |-> raster_failed, pages |-> pages]

\* The pages after a page that raises are never read: in the documents of a
\* batch they are rubric pages.
PageLists ==
    {ps \in SeqsUpTo(PageSamples, MaxPages) :
        \A i \in 1..Len(ps) : \A j \in (i + 1)..Len(ps) :
            ps[i] = BrokenPage => ps[j] = RubricPage}

Docs == {Doc(TRUE, <<>>)} \cup {Doc(FALSE, ps) : ps \in PageLists}

Configs ==
    {[poppler |-> TRUE, tesseract |-> TRUE], [poppler |-> FALSE, tesseract |-> TRUE],
     [poppler |-> TRUE, tesseract |-> FALSE]}

ConfigOk == [poppler |-> TRUE, tesseract |-> TRUE]

\* file.filename of the i-th upload, and the prefix of its page page_num.
filename(i) == "doc" \o ToString(i) \o ".pdf"

filename_prefix(i, page_num) == "doc" \o ToString(i) \o "_p" \o ToString(page_num)

----------------------------------------------------------------------------
(* process_rubric_page as a sequence of steps. pg.state is the page's      *)
(* position: RECEIVED, NORMALIZED, REJECTED, VALIDATED, PREPARED,           *)
(* ADVISOR_DONE, FIELDS_DONE, SCORING, DONE, or RAISED when an exception    *)
(* left the call. pg.stages lists the stages that ran.                      *)

NoField == [raised |-> FALSE, text |-> "", path |-> ""]

NoResults == [k \in {} |-> ""]

NoPage ==
    [state |-> "NONE", prefix |-> "", rotation |-> 0, v_lines |-> <<>>,
     advisor |-> NoField, group |-> NoField, results |-> NoResults,
     anchors |-> NoAnchors.boxes, todo |-> <<>>, total_score |-> 0,
     stages |-> <<>>]

page == images[page_idx]

InPage(state) == pc = "in_page" /\ pg.state = state

\* 1. Deskew
PageDeskew ==
    /\ InPage("RECEIVED")
    /\ pg' = [pg EXCEPT !.state = "NORMALIZED",
                        !.rotation = deskew(page.osd),
                        !.stages = Append(@, "deskew")]
    /\ UNCHANGED <<config, files, pc, file_idx, images, page_idx, csv_data, errors>>
    /\ UNCHANGED <<scorer_vars, anchor_vars>>

\* 2. Page Validation: without a keyword the page is saved as comments and
\* the call returns.
PageValidate ==
    /\ InPage("NORMALIZED")
    /\ pg' = IF has_critical_anchor(page.validation)
             THEN [pg EXCEPT !.state = "VALIDATED",
                             !.stages = Append(@, "validate")]
             ELSE [pg EXCEPT !.state = "REJECTED",
                             !.results = comments_result(pg.prefix),
                             !.stages = Append(@, "validate")]
    /\ UNCHANGED <<config, files, pc, file_idx, images, page_idx, csv_data, errors>>
    /\ UNCHANGED <<scorer_vars, anchor_vars>>

\* 3.-5. Binary image, line removal, vertical grid lines.
PagePrepare ==
    /\ InPage("VALIDATED")
    /\ pg' = [pg EXCEPT !.state = "PREPARED",
                        !.v_lines = detect_vertical_grid_lines(page.unique_lines, ImgWidth),
                        !.stages = @ \o <<"threshold", "line_removal", "grid">>]
    /\ UNCHANGED <<config, files, pc, file_idx, images, page_idx, csv_data, errors>>
    /\ UNCHANGED <<scorer_vars, anchor_vars>>

\* 6. Extract Handwritten Fields: Advisor. An exception of image_to_data
\* leaves process_rubric_page and reaches the endpoint's except.
PageExtractAdvisor ==
    /\ InPage("PREPARED")
    /\ LET r == extract_handwritten_field(page.fields.advisor_data, "Advisor",
                                          page.crop_ocr, pg.prefix)
       IN  /\ pg' = [pg EXCEPT !.state = IF r.raised THEN "RAISED" ELSE "ADVISOR_DONE",
                               !.advisor = r,
                               !.stages = Append(@, "advisor")]
           /\ pc' = IF r.raised THEN "except" ELSE pc
    /\ UNCHANGED <<config, files, file_idx, images, page_idx, csv_data, errors>>
    /\ UNCHANGED <<scorer_vars, anchor_vars>>

\* 6. Extract Handwritten Fields: Group, then the results dict.
PageExtractGroup ==
    /\ InPage("ADVISOR_DONE")
    /\ LET r == extract_handwritten_field(page.fields.group_data, "Group",
                                          page.crop_ocr, pg.prefix)
       IN  /\ pg' = [pg EXCEPT !.state = IF r.raised THEN "RAISED" ELSE "FIELDS_DONE",
                               !.group = r,
                               !.results = IF r.raised THEN @
                                           ELSE field_results(pg.advisor, r),
                               !.stages = Append(@, "group")]
           /\ pc' = IF r.raised THEN "except" ELSE pc
    /\ UNCHANGED <<config, files, file_idx, images, page_idx, csv_data, errors>>
    /\ UNCHANGED <<scorer_vars, anchor_vars>>

\* 7. Find Anchors
PageFindAnchors ==
    /\ InPage("FIELDS_DONE")
    /\ LET r == find_text_anchors(page.anchor_data, ImgWidth)
       IN  /\ pg' = [pg EXCEPT !.state = IF r.raised THEN "RAISED" ELSE "SCORING",
                               !.anchors = r.boxes,
                               !.todo = r.order,
                               !.total_score = 0,
                               !.stages = Append(@, "anchors")]
           /\ pc' = IF r.raised THEN "except" ELSE pc
    /\ UNCHANGED <<config, files, file_idx, images, page_idx, csv_data, errors>>
    /\ UNCHANGED <<scorer_vars, anchor_vars>>

\* 7. Process Scores: one iteration of the loop over anchors.items().
PageScoreQuestion ==
    /\ InPage("SCORING")
    /\ pg.todo # <<>>
    /\ LET q_num == Head(pg.todo)
           binary_inv_img == [width |-> ImgWidth, height |-> ImgHeight,
                              ink |-> page.ink, margin |-> page.margin]
           score == detect_score_with_grid(binary_inv_img, pg.anchors[q_num],
                                           pg.v_lines, InitialMultiplier).score
       IN  pg' = [pg EXCEPT !.results = with_score(@, q_num, score),
                            !.total_score = IF score # NoScore THEN @ + score ELSE @,
                            !.todo = Tail(@),
                            !.stages = Append(@, "score")]
    /\ UNCHANGED <<config, files, pc, file_idx, images, page_idx, csv_data, errors>>
    /\ UNCHANGED <<scorer_vars, anchor_vars>>

\* Total_Score, the debug image, return results.
PageFinish ==
    /\ InPage("SCORING")
    /\ pg.todo = <<>>
    /\ pg' = [pg EXCEPT !.state = "DONE",
                        !.results = ("Total_Score" :> pg.total_score) @@ @]
    /\ UNCHANGED <<config, files, pc, file_idx, images, page_idx, csv_data, errors>>
    /\ UNCHANGED <<scorer_vars, anchor_vars>>

----------------------------------------------------------------------------
(* process_rubrics_endpoint *)

\* Mutant: an exception in one document ends the loop over the files.
file_after_exception_stop(idx, n) == n + 1

\* The for loop over files goes on after the except and finally blocks.
file_after_exception(idx, n) == idx + 1

\* The configuration checks: HTTP 500 when a path does not resolve.
ConfigError ==
    /\ pc = "start"
    /\ ~(config.poppler /\ config.tesseract)
    /\ pc' = "http_500"
    /\ UNCHANGED <<config, files, file_idx, images, page_idx, csv_data, errors, pg>>
    /\ UNCHANGED <<scorer_vars, anchor_vars>>

Begin ==
    /\ pc = "start"
    /\ config.poppler /\ config.tesseract
    /\ pc' = "files"
    /\ csv_data' = <<>>
    /\ file_idx' = 1
    /\ UNCHANGED <<config, files, images, page_idx, errors, pg>>
    /\ UNCHANGED <<scorer_vars, anchor_vars>>

\* The upload is copied to a temporary file and rasterized.
Rasterize ==
    /\ pc = "files"
    /\ file_idx <= Len(files)
    /\ IF files[file_idx].raster_failed
       THEN /\ pc' = "except"
            /\ UNCHANGED <<images, page_idx>>
       ELSE /\ pc' = "pages"
            /\ images' = files[file_idx].pages
            /\ page_idx' = 1
    /\ UNCHANGED <<config, files, file_idx, csv_data, errors, pg>>
    /\ UNCHANGED <<scorer_vars, anchor_vars>>

\* The loop over the images calls process_rubric_page.
StartPage ==
    /\ pc = "pages"
    /\ page_idx <= Len(images)
    /\ pc' = "in_page"
    /\ pg' = [NoPage EXCEPT !.state = "RECEIVED",
                            !.prefix = filename_prefix(file_idx, page_idx)]
    /\ UNCHANGED <<config, files, file_idx, images, page_idx, csv_data, errors>>
    /\ UNCHANGED <<scorer_vars, anchor_vars>>

\* process_rubric_page returned: the row is appended.
AppendRow ==
    /\ pc = "in_page"
    /\ pg.state \in {"REJECTED", "DONE"}
    /\ csv_data' = Append(csv_data,
                     ("Filename" :> filename(file_idx)) @@ ("Page_Num" :> page_idx)
                        @@ pg.results)
    /\ page_idx' = page_idx + 1
    /\ pc' = "pages"
    /\ pg' = NoPage
    /\ UNCHANGED <<config, files, file_idx, images, errors>>
    /\ UNCHANGED <<scorer_vars, anchor_vars>>

\* The images are exhausted: finally, then the next file.
DocumentDone ==
    /\ pc = "pages"
    /\ page_idx > Len(images)
    /\ file_idx' = file_idx + 1
    /\ pc' = "files"
    /\ images' = <<>>
    /\ page_idx' = 0
    /\ UNCHANGED <<config, files, csv_data, errors, pg>>
    /\ UNCHANGED <<scorer_vars, anchor_vars>>

\* except Exception: the error is printed; finally; then the next file.
CatchException ==
    /\ pc = "except"
    /\ errors' = Append(errors, file_idx)
    /\ file_idx' = file_after_exception(file_idx, Len(files))
    /\ pc' = "files"
    /\ images' = <<>>
    /\ page_idx' = 0
    /\ pg' = NoPage
    /\ UNCHANGED <<config, files, csv_data>>
    /\ UNCHANGED <<scorer_vars, anchor_vars>>

\* No row at all: HTTP 400.
EmptyBatch ==
    /\ pc = "files"
    /\ file_idx > Len(files)
    /\ csv_data = <<>>
    /\ pc' = "http_400"
    /\ UNCHANGED <<config, files, file_idx, images, page_idx, csv_data, errors, pg>>
    /\ UNCHANGED <<scorer_vars, anchor_vars>>

\* The CSV and the archive are written and returned.
Respond ==
    /\ pc = "files"
    /\ file_idx > Len(files)
    /\ csv_data # <<>>
    /\ pc' = "responded"
    /\ UNCHANGED <<config, files, file_idx, images, page_idx, csv_data, errors, pg>>
    /\ UNCHANGED <<scorer_vars, anchor_vars>>

----------------------------------------------------------------------------
(* Specifications *)

ScorerNoRow ==
    [unique_lines |-> <<>>, anchor_box |-> <<0, 0, 0, 0>>,
     ink |-> <<0, 0, 0, 0, 0>>, margin |-> 0]

ScorerIdle == [score |-> NoScore, calls |-> <<>>, zones |-> 0, dens |-> <<>>]

AnchorIdle == [raised |-> FALSE, boxes |-> NoAnchors.boxes, order |-> <<"idle">>]

ScorerUnused == sc_in = ScorerNoRow /\ sc_out = ScorerIdle

AnchorUnused == an_in = <<>> /\ an_out = AnchorIdle

BatchUnused ==
    /\ config = ConfigOk
    /\ files = <<>>
    /\ pc = "unused"
    /\ file_idx = 0
    /\ images = <<>>
    /\ page_idx = 0
    /\ csv_data = <<>>
    /\ errors = <<>>
    /\ pg = NoPage

BatchStart ==
    /\ pc = "start"
    /\ file_idx = 0
    /\ images = <<>>
    /\ page_idx = 0
    /\ csv_data = <<>>
    /\ errors = <<>>
    /\ pg = NoPage

\* A request with up to MaxDocs documents of up to MaxPages pages (one
\* document at most where the configuration is broken: the request ends
\* before any is read).
Init ==
    /\ \/ /\ config = ConfigOk
          /\ files \in SeqsUpTo(Docs, MaxDocs)
       \/ /\ config \in Configs
          /\ files \in SeqsUpTo(Docs, 1)
    /\ BatchStart
    /\ ScorerUnused
    /\ AnchorUnused

Next ==
    \/ ConfigError
    \/ Begin
    \/ Rasterize
    \/ StartPage
    \/ PageDeskew
    \/ PageValidate
    \/ PagePrepare
    \/ PageExtractAdvisor
    \/ PageExtractGroup
    \/ PageFindAnchors
    \/ PageScoreQuestion
    \/ PageFinish
    \/ AppendRow
    \/ DocumentDone
    \/ CatchException
    \/ EmptyBatch
    \/ Respond

Spec == Init /\ [][Next]_vars

\* A request with one document: any single page, or a document that cannot
\* be rasterized, or one that is empty.
PageInit ==
    /\ \/ /\ config = ConfigOk
          /\ files \in {<<Doc(FALSE, <<p>>)>> : p \in PageInputs}
       \/ /\ config \in Configs
          /\ files \in {<<Doc(TRUE, <<>>)>>, <<Doc(FALSE, <<>>)>>}
    /\ BatchStart
    /\ ScorerUnused
    /\ AnchorUnused

PageSpec == PageInit /\ [][Next]_vars

ScorerInit ==
    /\ sc_in \in ScorerRows
    /\ sc_out = ScorerIdle
    /\ AnchorUnused
    /\ BatchUnused

\* One top-level call, as process_rubric_page makes it (multiplier 1.0) on
\* the lines detect_vertical_grid_lines returned.
ScoreRow ==
    /\ sc_out = ScorerIdle
    /\ sc_out' = detect_score_with_grid(
                    binary_image_of(sc_in), sc_in.anchor_box,
                    detect_vertical_grid_lines(sc_in.unique_lines, ImgWidth),
                    InitialMultiplier)
    /\ UNCHANGED <<sc_in, anchor_vars, batch_vars>>

ScorerNext == ScoreRow

ScorerSpec == ScorerInit /\ [][ScorerNext]_vars

AnchorInit ==
    /\ an_in \in SeqsUpTo(Tokens, MaxTokens)
    /\ an_out = AnchorIdle
    /\ ScorerUnused
    /\ BatchUnused

\* One call of find_text_anchors on a page of width ImgWidth.
LocateAnchors ==
    /\ an_out = AnchorIdle
    /\ an_out' = find_text_anchors([failed |-> FALSE, tokens |-> an_in], ImgWidth)
    /\ UNCHANGED <<an_in, scorer_vars, batch_vars>>

AnchorNext == LocateAnchors

AnchorSpec == AnchorInit /\ [][AnchorNext]_vars

----------------------------------------------------------------------------
(* Properties of the scorer, checked under ScorerSpec *)

ScorerDone == sc_out.calls # <<>>

\* Sum of the densities of d other than the one at index k.
OthersSum(d, k) == SeqSum(d) - d[k]

FirstArgmax(d) ==
    CHOOSE i \in 1..Len(d) :
        /\ \A j \in 1..Len(d) : d[j] <= d[i]
        /\ \A j \in 1..(i - 1) : d[j] < d[i]

\* C1: on five zone densities with maximum M at argmax index W and mean A
\* of the other four, the call returns scores[W] if and only if
\* M > max(2 * margin baseline, 1.5 * A), M > 0.015 and (A = 0 or M > 2 * A);
\* otherwise it returns none.
C1_DecisionRule ==
    (ScorerDone /\ Len(sc_out.dens) = 5) =>
        LET d == sc_out.dens
            W == FirstArgmax(d)
            M == d[W]
            S == OthersSum(d, W)
            accepted == /\ M > 2 * sc_in.margin
                        /\ 8 * M > 3 * S
                        /\ M > 15
                        /\ (S = 0 \/ 4 * M > 2 * S)
        IN  IF accepted THEN sc_out.score = scores[W]
                        ELSE sc_out.score = NoScore

\* Scenario A: zone index 3 at 0.20, the others at 0.01, baseline 0.005:
\* the score of the fourth column.
C1_Witness ==
    /\ ScorerDone
    /\ sc_out.dens = <<10, 10, 10, 200, 10>>
    /\ sc_in.margin = 5
    /\ sc_out.score = 4

\* One zone k strictly above every other zone and above the margin-baseline
\* and relative-dominance thresholds (2 * baseline, 1.5 * and 2 * the mean of
\* the other zones).
RaisedPast(d, k, margin) ==
    /\ \A j \in 1..Len(d) : j # k => d[j] < d[k]
    /\ d[k] > 2 * margin
    /\ 2 * (Len(d) - 1) * d[k] > 3 * OthersSum(d, k)
    /\ (Len(d) - 1) * d[k] > 2 * OthersSum(d, k)

\* C2 as stated: a zone raised past the margin-baseline and the
\* relative-dominance thresholds, the other four below it, is the zone whose
\* score is returned.
C2_Original ==
    (ScorerDone /\ Len(sc_out.dens) = 5) =>
        \A k \in 1..5 :
            RaisedPast(sc_out.dens, k, sc_in.margin) => sc_out.score = scores[k]

\* C2 amended: the same, for a raised density that also exceeds the absolute
\* ink floor 0.015.
C2_Monotonic ==
    ScorerDone =>
        \A k \in 1..Len(sc_out.dens) :
            (RaisedPast(sc_out.dens, k, sc_in.margin) /\ sc_out.dens[k] > 15)
                => sc_out.score = scores[k]

\* A row whose second zone was raised to 0.016 over 0.010, 0.010, 0.010 and 0.
C2_Witness ==
    /\ ScorerDone
    /\ sc_out.dens = <<10, 16, 10, 10, 0>>
    /\ sc_in.margin = 5
    /\ RaisedPast(sc_out.dens, 2, sc_in.margin)
    /\ sc_out.score = 2

\* C3: a row whose measured zone densities are all <= the margin baseline
\* (baseline 0 included) returns none: the first attempt accepts nothing,
\* the retry runs and accepts nothing either.
C3_NoMark ==
    (ScorerDone /\ \A i \in 1..Len(sc_out.dens) : sc_out.dens[i] <= sc_in.margin)
        => (sc_out.score = NoScore /\ Len(sc_out.calls) = 2)

\* One zone at 0.016, above the ink floor, under a margin baseline of 0.020.
C3_Witness ==
    /\ ScorerDone
    /\ sc_out.dens = <<16, 0, 0, 0, 0>>
    /\ sc_in.margin = 20
    /\ sc_out.score = NoScore

\* C8 as stated: every call builds exactly five zones, one per score.
C8_FiveZones == ScorerDone => sc_out.zones = 5

ZoneOfScore(s) == CHOOSE i \in 1..Len(scores) : scores[i] = s

\* C12 as stated: whenever the call returns a score, the zone of that score
\* is strictly denser than each of the other zones of the row, so a row in
\* which two zones tie for the maximum density returns none.
C12_UniqueWinner ==
    (ScorerDone /\ sc_out.score # NoScore) =>
        \A j \in 1..Len(sc_out.dens) :
            j # ZoneOfScore(sc_out.score) =>
                sc_out.dens[j] < sc_out.dens[ZoneOfScore(sc_out.score)]

----------------------------------------------------------------------------
(* Properties of the anchor locator, checked under AnchorSpec *)

AnchorsDone == an_out # AnchorIdle

\* The question id whose acceptance conditions token i meets ("" for none).
AcceptedId(i) ==
    LET q == regex_match(strip(an_in[i].text))
    IN  IF /\ q \in {"1", "2", "3", "4", "5", "6", "7", "8", "9", "10", "11"}
           /\ an_in[i].conf > 60
           /\ 100 * an_in[i].left < 15 * ImgWidth
        THEN q
        ELSE ""

\* C9 as stated: of several tokens accepted for one question id the first
\* in recognizer order gives the box, and there is one box per id.
C9_FirstWins ==
    AnchorsDone =>
        \A i \in 1..Len(an_in) :
            (AcceptedId(i) # "" /\ \A j \in 1..(i - 1) : AcceptedId(j) # AcceptedId(i))
                => /\ AcceptedId(i) \in DOMAIN an_out.boxes
                   /\ an_out.boxes[AcceptedId(i)] = token_box(an_in[i])

\* C9 amended: the last accepted token in recognizer order gives the box
\* (each accepted token overwrites the entry), one box per question id, and
\* only ids with an accepted token have one.
C9_LastWins ==
    AnchorsDone =>
        /\ \A i \in 1..Len(an_in) :
              (AcceptedId(i) # "" /\ \A j \in (i + 1)..Len(an_in) : AcceptedId(j) # AcceptedId(i))
                  => /\ AcceptedId(i) \in DOMAIN an_out.boxes
                     /\ an_out.boxes[AcceptedId(i)] = token_box(an_in[i])
        /\ \A q \in DOMAIN an_out.boxes : \E i \in 1..Len(an_in) : AcceptedId(i) = q
        /\ Len(an_out.order) = Cardinality(DOMAIN an_out.boxes)

\* Two tokens accepted for question 1 at different rows: the later one's
\* box is kept.
C9_Witness ==
    /\ AnchorsDone
    /\ Len(an_in) = 2
    /\ AcceptedId(1) = "1" /\ AcceptedId(2) = "1"
    /\ an_in[1].top = 120 /\ an_in[2].top = 480
    /\ an_out.boxes["1"] = token_box(an_in[2])

\* The run of digits a text starts with, after its leading white space.
RECURSIVE LeadingDigits(_)
LeadingDigits(chars) ==
    IF chars = <<>> \/ ~is_digit(Head(chars))
    THEN ""
    ELSE Head(chars) \o LeadingDigits(Tail(chars))

KnownQuestionIds == {"1", "2", "3", "4", "5", "6", "7", "8", "9", "10", "11"}

\* C11: every entry of the mapping returned by find_text_anchors is the box
\* of a token whose leading one or two digits are the entry's question id,
\* a known one (1..11), whose confidence is strictly above 60 and whose x is
\* strictly below 0.15 * image width; no entry is the box of a token at
\* x >= 0.30 * width (so neither at 0.30 nor at 0.5), whatever its confidence.
C11_AcceptanceInvariant ==
    AnchorsDone =>
        /\ ~an_out.raised
        /\ \A q \in DOMAIN an_out.boxes :
              /\ q \in KnownQuestionIds
              /\ \E i \in 1..Len(an_in) :
                    /\ an_out.boxes[q] = token_box(an_in[i])
                    /\ LeadingDigits(lstrip(an_in[i].text)) = q
                    /\ an_in[i].conf > 60
                    /\ 100 * an_in[i].left < 15 * ImgWidth
        /\ \A i \in 1..Len(an_in) :
              10 * an_in[i].left >= 3 * ImgWidth =>
                  \A q \in DOMAIN an_out.boxes :
                      an_out.boxes[q] # token_box(an_in[i])

\* "11." at x = 50 of about 1000 with confidence 80 is the anchor of
\* question 11; the same token further right in the same scan, at x = 300,
\* leaves no entry although it comes later.
C11_Witness ==
    /\ AnchorsDone
    /\ Len(an_in) = 2
    /\ an_in[1].text = <<"1", "1", ".">> /\ an_in[2].text = an_in[1].text
    /\ an_in[1].conf = 80 /\ an_in[2].conf = 80
    /\ an_in[1].left = 50 /\ an_in[2].left = 300
    /\ an_in[1].top = an_in[2].top
    /\ DOMAIN an_out.boxes = {"11"}
    /\ an_out.boxes["11"] = token_box(an_in[1])

----------------------------------------------------------------------------
(* Properties of the page orchestrator, checked under PageSpec *)

\* The recognized text of the page under validation holds a rubric keyword.
KeywordSeen ==
    /\ ~page.validation.failed
    /\ \E i \in 1..Len(page.validation.text) :
          page.validation.text[i] \in {"Motivation", "BUDGET", "Schedules"}

PastValidation == pc = "in_page" /\ pg.state \notin {"RECEIVED", "NORMALIZED"}

\* C4 as stated: the result of a validated page holds a Score entry for
\* each of the 11 question ids.
C4_AllQuestionsPresent ==
    (pc = "in_page" /\ pg.state = "DONE") =>
        \A n \in 1..11 : ("Q" \o ToString(n) \o "_Score") \in DOMAIN pg.results

ScoringStages == {"threshold", "line_removal", "grid", "advisor", "group", "anchors", "score"}

\* C5: a page on which validation finds no keyword, or whose validation OCR
\* fails, is REJECTED: only deskew and validate ran, and its result holds
\* Comments_Image_Path alone (so does its row, beside Filename and
\* Page_Num); a validated page's result never holds Comments_Image_Path.
C5_RejectedIsTerminal ==
    /\ PastValidation => (pg.state = "REJECTED" <=> ~KeywordSeen)
    /\ pg.state = "REJECTED" =>
          /\ \A i \in 1..Len(pg.stages) : pg.stages[i] \notin ScoringStages
          /\ DOMAIN pg.results = {"Comments_Image_Path"}
    /\ (PastValidation /\ KeywordSeen) => "Comments_Image_Path" \notin DOMAIN pg.results
    /\ \A r \in 1..Len(csv_data) :
          "Comments_Image_Path" \in DOMAIN csv_data[r] =>
              DOMAIN csv_data[r] = {"Filename", "Page_Num", "Comments_Image_Path"}

\* A page whose validation OCR failed, rejected, its row appended.
C5_Witness ==
    /\ pc = "responded"
    /\ Len(files[1].pages) = 1
    /\ files[1].pages[1].validation.failed
    /\ Len(csv_data) = 1
    /\ DOMAIN csv_data[1] = {"Filename", "Page_Num", "Comments_Image_Path"}

\* C6 as stated: no failure of the recognizer aborts the processing of a
\* page; only a document that cannot be rasterized reaches the except.
C6_NeverAborted ==
    /\ pg.state # "RAISED"
    /\ pc = "except" => files[file_idx].raster_failed

----------------------------------------------------------------------------
(* Properties of the batch endpoint, checked under Spec *)

Finished == pc \in {"responded", "http_400"}

\* Nothing raises in document d.
Healthy(d) ==
    /\ ~d.raster_failed
    /\ \A k \in 1..Len(d.pages) : d.pages[k] # BrokenPage

HasRow(i, k) ==
    \E r \in 1..Len(csv_data) :
        csv_data[r]["Filename"] = filename(i) /\ csv_data[r]["Page_Num"] = k

\* C7: when the request ends, every page of every document in which nothing
\* raised has its row in the batch output, whatever happened in the other
\* documents, before or after it.
C7_FailureIsolation ==
    Finished =>
        \A i \in 1..Len(files) :
            Healthy(files[i]) => \A k \in 1..Len(files[i].pages) : HasRow(i, k)

\* The first document raises on its second page; both pages of the second
\* document have their rows.
C7_Witness ==
    /\ pc = "responded"
    /\ Len(files) = 2
    /\ files[1] = Doc(FALSE, <<RubricPage, BrokenPage>>)
    /\ Healthy(files[2]) /\ Len(files[2].pages) = 2
    /\ errors = <<1>>
    /\ HasRow(2, 1) /\ HasRow(2, 2)

====
